---- MODULE Spec2Model ----
(***************************************************************************)
(* winstart: a launcher that hands FILE and its ARGUMENTS to ShellExecuteA *)
(* and turns the returned status into an exit code and an error message.   *)
(*                                                                         *)
(* A string of the program is a sequence of one-character strings, so that *)
(* the quoting loop, the NUL check of CString::new and a re-parse of the   *)
(* parameter string work on characters.  Messages that the program only    *)
(* prints are TLA+ strings.                                                *)
(***************************************************************************)
EXTENDS Integers, Sequences, FiniteSets, TLC

VARIABLES
    my_args,      \* env::args(): program name, then FILE, then ARGUMENTS
    environ,      \* the process environment: variable name -> value or Unset
    environ0,     \* history: the environment at startup
    shell_reply,  \* input: the HINSTANCE ShellExecuteA returns when called
    pc,           \* position of the single thread
    file,         \* run: `file`
    args,         \* run: `args`, an Option<String>
    file_c,       \* run: `file_c`
    args_c,       \* run: `args_c`, an Option<CString>
    ret,          \* run: `ret` (u32); -1 while not assigned
    result,       \* what run() returned: Pending, Ok or Err(chain)
    calls,        \* history: the ShellExecuteA invocations, in order
    stdout,       \* lines written to the output stream
    stderr,       \* lines written to the error stream
    exit_code     \* the process exit code; -1 while the process runs

vars == <<my_args, environ, environ0, shell_reply, pc, file, args, file_c,
          args_c, ret, result, calls, stdout, stderr, exit_code>>

-----------------------------------------------------------------------------
(* Characters and strings *)

SP == " "
DQ == "\""
NUL == "\\0"

None == [some |-> FALSE]
Some(v) == [some |-> TRUE, val |-> v]

Contains(s, c) == \E i \in DOMAIN s : s[i] = c

(* Option<T> of Vec::get *)
Get(v, i) == IF i + 1 <= Len(v) THEN Some(v[i + 1]) ELSE None

-----------------------------------------------------------------------------
(* Bounds of the model *)

MaxParams == 2
MaxReply == 40

-----------------------------------------------------------------------------
(* help_and_exit *)

UsageText ==
    "usage: winstart.exe FILE [ARGUMENTS...]"

HelpExitCode == 1

HelpFlags == { <<"-", "h">>, <<"-", "-", "h", "e", "l", "p">>, <<"/", "?">> }

IsHelpFlag(f) == f \in HelpFlags

-----------------------------------------------------------------------------
(* check_shellexecute_status *)

ERROR_FILE_NOT_FOUND == 2
ERROR_PATH_NOT_FOUND == 3
ERROR_BAD_FORMAT == 11
SE_ERR_ACCESSDENIED == 5
SE_ERR_ASSOCINCOMPLETE == 27
SE_ERR_DDEBUSY == 30
SE_ERR_DDEFAIL == 29
SE_ERR_DDETIMEOUT == 28
SE_ERR_DLLNOTFOUND == 32
SE_ERR_NOASSOC == 31
SE_ERR_OOM == 8
SE_ERR_SHARE == 26

SuccessThreshold == 32

StatusOkOffByOne(status) == status >= SuccessThreshold

StatusOk(status) == status > SuccessThreshold

StatusMessageMerged(status) ==
    CASE status = 0 -> " The operating system is out of memory or resources."
      [] status = ERROR_FILE_NOT_FOUND -> "The specified file was not found"
      [] status = ERROR_PATH_NOT_FOUND -> "The specified path was not found."
      [] status = ERROR_BAD_FORMAT -> "The .exe file is invalid (non-Win32 .exe or error in .exe image)."
      [] status = SE_ERR_ACCESSDENIED -> "The operating system denied access to the specified file."
      [] status = SE_ERR_ASSOCINCOMPLETE -> "The file name association is incomplete or invalid."
      [] status = SE_ERR_DDEBUSY -> "The DDE transaction could not be completed because other DDE transactions were being processed."
      [] status = SE_ERR_DDEFAIL -> "The DDE transaction failed."
      [] status = SE_ERR_DDETIMEOUT -> "The DDE transaction could not be completed because the request timed out."
      [] status = SE_ERR_DLLNOTFOUND -> "The specified DLL was not found."
      [] status = SE_ERR_NOASSOC -> "There is no application associated with the given file name extension."
      [] status = SE_ERR_OOM -> " The operating system is out of memory or resources."
      [] status = SE_ERR_SHARE -> "A sharing violation occurred. "
      [] OTHER -> "An unknown error occurred."

StatusMessage(status) ==
    CASE status = 0 -> " The operating system is out of memory or resources."
      [] status = ERROR_FILE_NOT_FOUND -> "The specified file was not found"
      [] status = ERROR_PATH_NOT_FOUND -> "The specified path was not found."
      [] status = ERROR_BAD_FORMAT -> "The .exe file is invalid (non-Win32 .exe or error in .exe image)."
      [] status = SE_ERR_ACCESSDENIED -> "The operating system denied access to the specified file."
      [] status = SE_ERR_ASSOCINCOMPLETE -> "The file name association is incomplete or invalid."
      [] status = SE_ERR_DDEBUSY -> "The DDE transaction could not be completed because other DDE transactions were being processed."
      [] status = SE_ERR_DDEFAIL -> "The DDE transaction failed."
      [] status = SE_ERR_DDETIMEOUT -> "The DDE transaction could not be completed because the request timed out."
      [] status = SE_ERR_DLLNOTFOUND -> "The specified DLL was not found."
      [] status = SE_ERR_NOASSOC -> "There is no application associated with the given file name extension."
      [] status = SE_ERR_OOM -> "There was not enough memory to complete the operation."
      [] status = SE_ERR_SHARE -> "A sharing violation occurred. "
      [] OTHER -> "An unknown error occurred."

(* Result<()>: Ok, or Err carrying the chain of messages, outermost first *)
Pending == [tag |-> "Pending", chain |-> <<>>]
Ok == [tag |-> "Ok", chain |-> <<>>]
Err(chain) == [tag |-> "Err", chain |-> chain]

check_shellexecute_status(status) ==
    IF StatusOk(status)
    THEN Ok
    ELSE Err(<<"ShellExecute: " \o StatusMessage(status)>>)

-----------------------------------------------------------------------------
(* clean_environment *)

Unset == "<unset>"

EnvNames == {"HOME", "SHELL", "MSYSTEM", "PATH"}

remove_var(e, name) == IF name \in DOMAIN e THEN [e EXCEPT ![name] = Unset] ELSE e

var_os(e, name) == IF name \in DOMAIN e /\ e[name] # Unset THEN Some(e[name]) ELSE None

RemovedVarsShort == <<"HOME", "SHELL">>

RemovedVars == <<"HOME", "SHELL", "MSYSTEM">>

RECURSIVE for_each_remove(_, _)
for_each_remove(names, e) ==
    IF names = <<>> THEN e
    ELSE for_each_remove(Tail(names), remove_var(e, Head(names)))

clean_environment(e) ==
    IF var_os(e, "MSYSTEM").some
    THEN for_each_remove(RemovedVars, e)
    ELSE e

-----------------------------------------------------------------------------
(* run: the pieces *)

FileArgProgramName(a) == Get(a, 0)

FileArg(a) == Get(a, 1)

HasParamsOffByOne(a) == Len(a) >= 2

HasParams(a) == Len(a) > 2

SeparatorAlways(i) == TRUE

SeparatorNeeded(i) == i # 0

NeedsQuoteNever(a) == FALSE

NeedsQuote(a) == Contains(a, SP)

(* the loop of lines 74-83: i is the 0-based index of enumerate() *)
RECURSIVE JoinLoop(_, _, _)
JoinLoop(params, i, s) ==
    IF i >= Len(params) THEN s
    ELSE LET a == params[i + 1]
             s1 == IF SeparatorNeeded(i) THEN Append(s, SP) ELSE s
             s2 == IF NeedsQuote(a)
                   THEN s1 \o <<DQ>> \o a \o <<DQ>>
                   ELSE s1 \o a
         IN JoinLoop(params, i + 1, s2)

BuildArgs(a) ==
    IF HasParams(a)
    THEN Some(JoinLoop(SubSeq(a, 3, Len(a)), 0, <<>>))
    ELSE None

(* CString::new: Err(NulError(position of the first NUL)) or the bytes *)
NulPositionUnchecked(bytes) == None

NulPosition(bytes) ==
    IF Contains(bytes, NUL)
    THEN Some((CHOOSE i \in DOMAIN bytes :
                  bytes[i] = NUL /\ \A j \in 1..(i - 1) : bytes[j] # NUL) - 1)
    ELSE None

NulErrorText(pos) ==
    "nul byte found in provided data at position: " \o ToString(pos)

(* `{:#}` of an anyhow chain: the messages joined with ": " *)
RECURSIVE AlternateDisplay(_)
AlternateDisplay(chain) ==
    IF Len(chain) = 0 THEN ""
    ELSE IF Len(chain) = 1 THEN chain[1]
    ELSE chain[1] \o ": " \o AlternateDisplay(Tail(chain))

(* `ret as u32`: ShellExecuteA's HINSTANCE holds an integer of the u32 range, *)
(* which the cast leaves as it is                                             *)
AsU32(h) == h

AfterStatusRetry(r) == IF r.tag = "Err" THEN "shell_execute" ELSE "returned"

AfterStatus(r) == "returned"

ErrorLineSilent(e) == <<>>

ErrorLine(e) == <<"Error: " \o AlternateDisplay(e.chain)>>

FailureExitCode == 1

SuccessExitCode == 0

-----------------------------------------------------------------------------
(* The inputs of a run *)

ProgramName == <<"w">>

(* FILE and ARGUMENTS are drawn from this pool: empty, plain, with spaces   *)
(* (inside, leading, trailing, only), with a double quote, with a NUL.      *)
StringPool ==
    { <<>>, <<"a">>, <<SP>>, <<"a", SP, "b">>, <<"b", SP, "c">>,
      <<"c", SP, "d">>, <<SP, "a">>, <<DQ>>, <<"a", SP, DQ>>, <<"a", NUL>>,
      <<NUL, SP>> }

RECURSIVE SeqsUpTo(_, _)
SeqsUpTo(S, n) ==
    IF n = 0 THEN { <<>> }
    ELSE LET shorter == SeqsUpTo(S, n - 1)
         IN shorter \cup { Append(s, x) : s \in { t \in shorter : Len(t) = n - 1 }, x \in S }

ArgLists ==
    { ProgramName_ \o rest :
        ProgramName_ \in { <<ProgramName>> },
        rest \in { <<>> } \cup
                 { <<f>> \o ps : f \in StringPool \cup HelpFlags,
                                 ps \in SeqsUpTo(StringPool, MaxParams) } }

FewArgLists ==
    { <<ProgramName>>,
      <<ProgramName, <<"a">>>>,
      <<ProgramName, <<"a">>, <<"a", SP, "b">>>>,
      <<ProgramName, <<"/", "?">>>>,
      <<ProgramName, <<"a", NUL>>>>,
      <<ProgramName, <<"a">>, <<"a", NUL>>>> }

EnvValues == { "/home/u", "C:\\msys64\\home\\u" }

Environments == [EnvNames -> EnvValues \cup {Unset}]

NativeEnv ==
    [n \in EnvNames |-> IF n = "PATH" THEN "C:\\msys64\\home\\u" ELSE Unset]

MsysEnv == [n \in EnvNames |-> "/home/u"]

FewEnvironments == { NativeEnv, MsysEnv }

(* ShellExecuteA returns a small integer typed as HINSTANCE *)
Replies == 0..MaxReply \cup { 2147483647 }

FewReplies == { ERROR_FILE_NOT_FOUND, 42 }

-----------------------------------------------------------------------------
(* The state machine: main() calling run() *)

InitLocals ==
    /\ environ0 = environ
    /\ pc = "get_file"
    /\ file = <<>>
    /\ args = None
    /\ file_c = <<>>
    /\ args_c = None
    /\ ret = -1
    /\ result = Pending
    /\ calls = <<>>
    /\ stdout = <<>>
    /\ stderr = <<>>
    /\ exit_code = -1

(* Each disjunct lets one input range widely and the others over a few *)
Init ==
    /\ \/ /\ my_args \in ArgLists
          /\ environ \in FewEnvironments
          /\ shell_reply \in FewReplies
       \/ /\ my_args \in FewArgLists
          /\ environ \in Environments
          /\ shell_reply \in FewReplies
       \/ /\ my_args \in FewArgLists
          /\ environ \in FewEnvironments
          /\ shell_reply \in Replies
    /\ InitLocals

(* lines 64-65: my_args.get(1).ok_or_else(..)? *)
GetFile ==
    /\ pc = "get_file"
    /\ LET f == FileArg(my_args)
       IN IF f.some
          THEN /\ file' = f.val
               /\ pc' = "match_help"
               /\ result' = result
          ELSE /\ result' = Err(<<"no file specified">>)
               /\ pc' = "returned"
               /\ file' = file
    /\ UNCHANGED <<my_args, environ, environ0, shell_reply, args, file_c,
                   args_c, ret, calls, stdout, stderr, exit_code>>

(* lines 67-70, with help_and_exit (lines 11-21) *)
MatchHelp ==
    /\ pc = "match_help"
    /\ IF IsHelpFlag(file)
       THEN /\ stdout' = Append(stdout, UsageText)
            /\ exit_code' = HelpExitCode
            /\ pc' = "exited"
       ELSE /\ pc' = "build_args"
            /\ UNCHANGED <<stdout, exit_code>>
    /\ UNCHANGED <<my_args, environ, environ0, shell_reply, file, args,
                   file_c, args_c, ret, result, calls, stderr>>

(* lines 72-87 *)
BuildArgsStep ==
    /\ pc = "build_args"
    /\ args' = BuildArgs(my_args)
    /\ pc' = "file_cstring"
    /\ UNCHANGED <<my_args, environ, environ0, shell_reply, file, file_c,
                   args_c, ret, result, calls, stdout, stderr, exit_code>>

(* line 89 *)
FileCString ==
    /\ pc = "file_cstring"
    /\ LET nul == NulPosition(file)
       IN IF nul.some
          THEN /\ result' = Err(<<"invalid filename (contains NULL)",
                                  NulErrorText(nul.val)>>)
               /\ pc' = "returned"
               /\ file_c' = file_c
          ELSE /\ file_c' = file
               /\ pc' = "args_cstring"
               /\ result' = result
    /\ UNCHANGED <<my_args, environ, environ0, shell_reply, file, args,
                   args_c, ret, calls, stdout, stderr, exit_code>>

(* lines 90-93 *)
ArgsCString ==
    /\ pc = "args_cstring"
    /\ IF args.some
       THEN LET nul == NulPosition(args.val)
            IN IF nul.some
               THEN /\ result' = Err(<<"invalid arguments (contains NULL)",
                                       NulErrorText(nul.val)>>)
                    /\ pc' = "returned"
                    /\ args_c' = args_c
               ELSE /\ args_c' = Some(args.val)
                    /\ pc' = "clean_environment"
                    /\ result' = result
       ELSE /\ args_c' = None
            /\ pc' = "clean_environment"
            /\ result' = result
    /\ UNCHANGED <<my_args, environ, environ0, shell_reply, file, args,
                   file_c, ret, calls, stdout, stderr, exit_code>>

(* line 95 *)
CleanEnvironment ==
    /\ pc = "clean_environment"
    /\ environ' = clean_environment(environ)
    /\ pc' = "shell_execute"
    /\ UNCHANGED <<my_args, environ0, shell_reply, file, args, file_c,
                   args_c, ret, result, calls, stdout, stderr, exit_code>>

(* lines 97-117: the call, and the cast of its HINSTANCE to u32 *)
ShellExecute ==
    /\ pc = "shell_execute"
    /\ calls' = Append(calls, [lpFile |-> file_c,
                               lpParameters |-> args_c,
                               environment |-> environ,
                               returned |-> shell_reply])
    /\ ret' = AsU32(shell_reply)
    /\ pc' = "check_status"
    /\ UNCHANGED <<my_args, environ, environ0, shell_reply, file, args,
                   file_c, args_c, result, stdout, stderr, exit_code>>

(* lines 119-121: check_shellexecute_status(ret)?; Ok(()) *)
CheckStatus ==
    /\ pc = "check_status"
    /\ result' = check_shellexecute_status(ret)
    /\ pc' = AfterStatus(check_shellexecute_status(ret))
    /\ UNCHANGED <<my_args, environ, environ0, shell_reply, file, args,
                   file_c, args_c, ret, calls, stdout, stderr, exit_code>>

(* lines 124-129 *)
Main ==
    /\ pc = "returned"
    /\ IF result.tag = "Err"
       THEN /\ stderr' = stderr \o ErrorLine(result)
            /\ exit_code' = FailureExitCode
       ELSE /\ stderr' = stderr
            /\ exit_code' = SuccessExitCode
    /\ pc' = "exited"
    /\ UNCHANGED <<my_args, environ, environ0, shell_reply, file, args,
                   file_c, args_c, ret, result, calls, stdout>>

Next ==
    \/ GetFile
    \/ MatchHelp
    \/ BuildArgsStep
    \/ FileCString
    \/ ArgsCString
    \/ CleanEnvironment
    \/ ShellExecute
    \/ CheckStatus
    \/ Main

Spec == Init /\ [][Next]_vars

-----------------------------------------------------------------------------
(* Vocabulary of the properties *)

HasTarget == Len(my_args) >= 2

Target == my_args[2]

Params == SubSeq(my_args, 3, Len(my_args))

TargetIsHelp ==
    HasTarget /\ Target \in { <<"-", "h">>, <<"-", "-", "h", "e", "l", "p">>, <<"/", "?">> }

TargetHasNul == HasTarget /\ \E i \in DOMAIN Target : Target[i] = "\\0"

ParamsHaveNul == \E k \in DOMAIN Params : \E i \in DOMAIN Params[k] : Params[k][i] = "\\0"

RunOver == pc \in {"returned", "exited"}

Exited == pc = "exited"

(* lines 72-87 have run *)
ArgsBuilt ==
    /\ HasTarget
    /\ ~TargetIsHelp
    /\ pc \notin {"get_file", "match_help", "build_args"}

Invoked == calls # <<>>

LastCall == calls[Len(calls)]

(* the quoting rule as the specification words it *)
Quoted(p) ==
    IF \E i \in DOMAIN p : p[i] = " " THEN <<"\"">> \o p \o <<"\"">> ELSE p

RECURSIVE Joined(_)
Joined(ps) ==
    IF ps = <<>> THEN <<>>
    ELSE IF Len(ps) = 1 THEN Quoted(ps[1])
    ELSE Quoted(Head(ps)) \o <<" ">> \o Joined(Tail(ps))

(* Re-parsing by the same convention: spaces outside double quotes separate  *)
(* the parameters, and the double quotes are removed.                        *)
RECURSIVE SplitFrom(_, _, _, _, _, _)
SplitFrom(s, i, cur, inToken, inQuotes, acc) ==
    IF i > Len(s) THEN (IF inToken THEN Append(acc, cur) ELSE acc)
    ELSE IF s[i] = "\"" THEN SplitFrom(s, i + 1, cur, TRUE, ~inQuotes, acc)
    ELSE IF s[i] = " " /\ ~inQuotes
         THEN SplitFrom(s, i + 1, <<>>, FALSE, FALSE,
                        IF inToken THEN Append(acc, cur) ELSE acc)
    ELSE SplitFrom(s, i + 1, Append(cur, s[i]), TRUE, inQuotes, acc)

Reparsed(parameters) ==
    IF parameters.some THEN SplitFrom(parameters.val, 1, <<>>, FALSE, FALSE, <<>>)
    ELSE <<>>

QuoteFree(ps) == \A k \in DOMAIN ps : \A i \in DOMAIN ps[k] : ps[k][i] # "\""

-----------------------------------------------------------------------------
(* C1: when the process has terminated, its exit code is 0 exactly when      *)
(* ShellExecuteA was invoked and returned a status above 32, and it is 1 in  *)
(* every other case: no FILE, a help flag as FILE, a NUL in FILE or in an    *)
(* argument, or a status of 32 or less.                                      *)
C1_ExitCode ==
    Exited =>
        /\ exit_code \in {0, 1}
        /\ exit_code = 0 <=> (Invoked /\ LastCall.returned > 32)
        /\ (\/ ~HasTarget
            \/ TargetIsHelp
            \/ TargetHasNul
            \/ ParamsHaveNul
            \/ (Invoked /\ LastCall.returned <= 32)) => exit_code = 1

C1_Witness ==
    /\ Exited
    /\ exit_code = 0
    /\ Invoked
    /\ LastCall.returned = 33

-----------------------------------------------------------------------------
(* C2: check_shellexecute_status, applied to the status the call returned:   *)
(* above 32 it is Ok; at 0 it is the out-of-memory-or-resources error; at a  *)
(* known failure code it is the error of exactly that code, distinct codes   *)
(* having distinct messages; at any other status of 32 or less it is the     *)
(* generic unknown error.                                                    *)
C2_KnownCodes == {2, 3, 5, 8, 11, 26, 27, 28, 29, 30, 31, 32}

C2_KnownMessage(s) ==
    CASE s = 2 -> "ShellExecute: The specified file was not found"
      [] s = 3 -> "ShellExecute: The specified path was not found."
      [] s = 5 -> "ShellExecute: The operating system denied access to the specified file."
      [] s = 8 -> "ShellExecute: There was not enough memory to complete the operation."
      [] s = 11 -> "ShellExecute: The .exe file is invalid (non-Win32 .exe or error in .exe image)."
      [] s = 26 -> "ShellExecute: A sharing violation occurred. "
      [] s = 27 -> "ShellExecute: The file name association is incomplete or invalid."
      [] s = 28 -> "ShellExecute: The DDE transaction could not be completed because the request timed out."
      [] s = 29 -> "ShellExecute: The DDE transaction failed."
      [] s = 30 -> "ShellExecute: The DDE transaction could not be completed because other DDE transactions were being processed."
      [] s = 31 -> "ShellExecute: There is no application associated with the given file name extension."
      [] s = 32 -> "ShellExecute: The specified DLL was not found."

C2_StatusChecked == Invoked /\ RunOver

C2_StatusTable ==
    C2_StatusChecked =>
        /\ ret > 32 => result = [tag |-> "Ok", chain |-> <<>>]
        /\ ret <= 32 => result.tag = "Err" /\ Len(result.chain) = 1
        /\ ret = 0 =>
              result.chain[1] = "ShellExecute:  The operating system is out of memory or resources."
        /\ ret \in C2_KnownCodes =>
              /\ result.chain[1] = C2_KnownMessage(ret)
              /\ \A other \in (0..32) \ {ret} :
                    check_shellexecute_status(other).chain # result.chain
        /\ (ret > 0 /\ ret <= 32 /\ ret \notin C2_KnownCodes) =>
              result.chain[1] = "ShellExecute: An unknown error occurred."

C2_Witness ==
    /\ C2_StatusChecked
    /\ ret = 31
    /\ result.chain = <<"ShellExecute: There is no application associated with the given file name extension.">>

-----------------------------------------------------------------------------
(* C3, as claimed: once run has built the parameter string, it is the        *)
(* parameters in order, joined by one space, each parameter with a space     *)
(* wrapped in one pair of double quotes and the others verbatim; for no      *)
(* parameters it is the empty string.                                        *)
C3_JoinedString ==
    ArgsBuilt => args = Some(Joined(Params))

(* C3, amended: the same for one parameter or more; for no parameters run    *)
(* builds no parameter string at all (None), not the empty string.  The      *)
(* examples of the claim with parameters are included.                       *)
C3_JoinedStringOrNone ==
    ArgsBuilt =>
        /\ Params = <<>> => args = None
        /\ Params # <<>> => args = Some(Joined(Params))
        /\ Params = << <<"a">>, <<"b", " ", "c">> >> =>
              args = Some(<<"a", " ", "\"", "b", " ", "c", "\"">>)
        /\ Params = << <<"a", " ", "b">>, <<"c", " ", "d">> >> =>
              args = Some(<<"\"", "a", " ", "b", "\"", " ", "\"", "c", " ", "d", "\"">>)
        /\ Params = << <<"a">> >> => args = Some(<<"a">>)

C3_Witness ==
    /\ ArgsBuilt
    /\ Params = << <<"a", " ", "b">>, <<"c", " ", "d">> >>
    /\ args = Some(<<"\"", "a", " ", "b", "\"", " ", "\"", "c", " ", "d", "\"">>)

-----------------------------------------------------------------------------
(* C4, as claimed: whenever no parameter holds a double quote, re-parsing    *)
(* the parameter string run built gives back the parameters, empty           *)
(* parameters and the empty sequence included.                               *)
C4_RoundTrip ==
    (ArgsBuilt /\ QuoteFree(Params)) => Reparsed(args) = Params

(* C4, amended: the same, for parameters none of which is the empty string.  *)
C4_RoundTripNonEmpty ==
    (ArgsBuilt /\ QuoteFree(Params) /\ \A k \in DOMAIN Params : Params[k] # <<>>) =>
        Reparsed(args) = Params

C4_Witness ==
    /\ ArgsBuilt
    /\ Params = << <<"a", " ", "b">>, <<" ", "a">> >>
    /\ Reparsed(args) = Params

-----------------------------------------------------------------------------
(* C5: every invocation of ShellExecuteA gets the target as lpFile, and as   *)
(* lpParameters a null pointer exactly when there are no parameters, and     *)
(* otherwise the joined parameters, non-null even when that string is empty. *)
C5_CallArguments ==
    \A n \in DOMAIN calls :
        /\ calls[n].lpFile = Target
        /\ calls[n].lpParameters = [some |-> FALSE] <=> Params = <<>>
        /\ Params # <<>> =>
              calls[n].lpParameters = [some |-> TRUE, val |-> Joined(Params)]

C5_Witness ==
    /\ Invoked
    /\ Params = << <<>> >>
    /\ LastCall.lpParameters = [some |-> TRUE, val |-> <<>>]
    /\ LastCall.lpFile = Target

-----------------------------------------------------------------------------
(* C6: with only the program name in the argument list, run fails with the   *)
(* usage error, the environment is the startup environment and               *)
(* ShellExecuteA has not been invoked.                                       *)
C6_NoTarget ==
    (~HasTarget /\ pc # "get_file") =>
        /\ result = [tag |-> "Err", chain |-> <<"no file specified">>]
        /\ environ = environ0
        /\ calls = <<>>

C6_Witness ==
    /\ ~HasTarget
    /\ pc = "returned"
    /\ result.tag = "Err"
    /\ environ0["MSYSTEM"] # Unset

-----------------------------------------------------------------------------
(* C7: the errors of an embedded NUL *)
C7_IsFilenameError(r) ==
    /\ r.tag = "Err"
    /\ Len(r.chain) = 2
    /\ r.chain[1] = "invalid filename (contains NULL)"

C7_IsArgumentsError(r) ==
    /\ r.tag = "Err"
    /\ Len(r.chain) = 2
    /\ r.chain[1] = "invalid arguments (contains NULL)"

(* C7, as claimed: with a NUL in the target or in a parameter,               *)
(* ShellExecuteA is never invoked and the run ends with run's encoding       *)
(* error, which is the target's when the target holds a NUL.                 *)
C7_NulRejected ==
    (TargetHasNul \/ ParamsHaveNul) =>
        /\ calls = <<>>
        /\ Exited =>
              /\ C7_IsFilenameError(result) \/ C7_IsArgumentsError(result)
              /\ TargetHasNul => C7_IsFilenameError(result)

(* C7, amended: the same when the target is not one of the help flags; with  *)
(* a help flag as target and a NUL in a parameter the process prints the     *)
(* usage and exits before any encoding check, and run returns no error.      *)
C7_NulRejectedUnlessHelp ==
    (TargetHasNul \/ ParamsHaveNul) =>
        /\ calls = <<>>
        /\ (Exited /\ ~TargetIsHelp) =>
              /\ C7_IsFilenameError(result) \/ C7_IsArgumentsError(result)
              /\ TargetHasNul => C7_IsFilenameError(result)
              /\ ~TargetHasNul => C7_IsArgumentsError(result)
        /\ (Exited /\ TargetIsHelp) => result.tag = "Pending"

C7_Witness ==
    /\ TargetHasNul
    /\ ParamsHaveNul
    /\ Exited
    /\ C7_IsFilenameError(result)
    /\ calls = <<>>

-----------------------------------------------------------------------------
(* C8: the environment in effect at an invocation of ShellExecuteA is the    *)
(* startup environment when MSYSTEM is not set in it, and otherwise the      *)
(* startup environment without HOME, SHELL and MSYSTEM, every other          *)
(* variable as it was.                                                       *)
C8_EnvironmentAtCall ==
    \A n \in DOMAIN calls :
        IF environ0["MSYSTEM"] = Unset
        THEN calls[n].environment = environ0
        ELSE /\ DOMAIN calls[n].environment = DOMAIN environ0
             /\ \A v \in DOMAIN environ0 :
                   calls[n].environment[v] =
                      IF v \in {"HOME", "SHELL", "MSYSTEM"} THEN Unset ELSE environ0[v]

C8_Witness ==
    /\ Invoked
    /\ environ0["MSYSTEM"] # Unset
    /\ environ0["HOME"] = Unset
    /\ environ0["SHELL"] # Unset
    /\ environ0["PATH"] # Unset
    /\ LastCall.environment["MSYSTEM"] = Unset
    /\ LastCall.environment["SHELL"] = Unset
    /\ LastCall.environment["PATH"] = environ0["PATH"]

-----------------------------------------------------------------------------
(* C9: a terminated run whose status was above 32 has exit code 0 and has    *)
(* written one diagnostic line, holding the status, to the error stream; a   *)
(* terminated run in which run failed has exit code 1 and has written the    *)
(* error prefixed with "Error: " to the error stream.                        *)
C9_Diagnostics ==
    Exited =>
        /\ (Invoked /\ LastCall.returned > 32) =>
              /\ exit_code = 0
              /\ Len(stderr) = 1
        /\ result.tag = "Err" =>
              /\ exit_code = 1
              /\ stderr = <<"Error: " \o AlternateDisplay(result.chain)>>

-----------------------------------------------------------------------------
(* C10: ShellExecuteA is never invoked more than once; a terminated run      *)
(* with a target that is no help flag and no NUL anywhere has invoked it     *)
(* exactly once; and a terminated run in which it returned 32 or less has    *)
(* reported that failure in exactly one line.  Until it terminates the       *)
(* process can always take its next step.                                    *)
C10_ArgumentsValid ==
    HasTarget /\ ~TargetIsHelp /\ ~TargetHasNul /\ ~ParamsHaveNul

C10_NoRetry ==
    /\ Len(calls) <= 1
    /\ (Exited /\ C10_ArgumentsValid) => Len(calls) = 1
    /\ (Exited /\ Invoked /\ LastCall.returned <= 32) =>
          /\ Len(stderr) = 1
          /\ stdout = <<>>
          /\ exit_code = 1
    /\ ~Exited => ENABLED Next

C10_Witness ==
    /\ Exited
    /\ C10_ArgumentsValid
    /\ Len(calls) = 1
    /\ LastCall.returned = 2
    /\ Len(stderr) = 1

====
